---- MODULE Spec2Model ----
(***************************************************************************)
(* Model of the batch ETL pipeline of cprofile.py: DataSourceConnector,    *)
(* DataTransformer (lru_cache'd enrichment), DataValidator (decision       *)
(* cache), DatabaseManager (write buffer + bulk insert) and DataPipeline.  *)
(*                                                                         *)
(* Numbers: a float "value" is represented in thousandths (fixed point),   *)
(* so the validator's bound 10000 is 10000 * Milli.  Strings that the code *)
(* parses (timestamps) are sequences of one-character strings.             *)
(*                                                                         *)
(* Four specifications share the state: SpecStore, SpecTransformer and     *)
(* SpecValidator call one component directly; SpecPipeline runs            *)
(* process_batch step by step (one step per call it makes).                *)
(***************************************************************************)
EXTENDS Integers, Sequences, FiniteSets, TLC

(* ------------------------------ bounds --------------------------------- *)
\* thresholds tried for DatabaseManager._batch_size (the code's default is
\* 100, cprofile.py:98; the attribute is configured in 1..MaxThreshold here)
MaxThreshold == 2
\* number of direct insert_record calls in the store specification
MaxInserts == 4
\* ids used by direct callers of the store and of the validator: 0..MaxId
MaxId == 2
\* number of direct _calculate_complex_metric calls
MaxMetricCalls == 5
\* capacity of the enrichment cache; stands for lru_cache(maxsize=1000),
\* cprofile.py:54, scaled down so that eviction happens within MaxMetricCalls
maxsize == 2
\* number of process_batch calls on one pipeline (main() makes 3)
MaxRuns == 1

(* --------------------------- program constants ------------------------- *)
\* the batch_size arguments passed to process_batch (the code's default is
\* 50, cprofile.py:132): one record per source, and more than one
BatchSizes == {1, 2}

Milli == 1000
\* upper bound on value and lower bound on the year in DataValidator.is_valid
MaxValue == 10000
MinYear == 2020
\* number of terms of the harmonic sum in _calculate_complex_metric
HarmonicTerms == 100

(* ------------------------------ helpers -------------------------------- *)
Range(s) == {s[i] : i \in 1..Len(s)}

(* ------------------------- DatabaseManager ----------------------------- *)
\* faulty variant of Upsert: keeps the record already stored under the id
UpsertKeepFirst(d, r) ==
    IF r.id \in DOMAIN d THEN d
    ELSE [k \in (DOMAIN d) \cup {r.id} |-> IF k = r.id THEN r ELSE d[k]]

\* self.db[record.id] = record
Upsert(d, r) ==
    [k \in (DOMAIN d) \cup {r.id} |-> IF k = r.id THEN r ELSE d[k]]

\* the loop of _bulk_insert: records are written in buffer order
RECURSIVE WriteAll(_, _)
WriteAll(d, pend) ==
    IF pend = <<>> THEN d
    ELSE WriteAll(Upsert(d, Head(pend)), Tail(pend))

\* _bulk_insert on a store st = [db, pending, writes]: writes every pending
\* record, then empties the buffer; writes counts the calls
_bulk_insert(st) ==
    [db |-> WriteAll(st.db, st.pending), pending |-> <<>>,
     writes |-> st.writes + 1]

\* faulty variant of insert_record: flushes only when the buffer exceeds the threshold
insert_record_late(st, r, threshold) ==
    LET appended == [st EXCEPT !.pending = Append(@, r)]
    IN  IF Len(appended.pending) > threshold
        THEN _bulk_insert(appended) ELSE appended

\* insert_record: append, then bulk insert when the threshold is reached
insert_record(st, r, threshold) ==
    LET appended == [st EXCEPT !.pending = Append(@, r)]
    IN  IF Len(appended.pending) >= threshold
        THEN _bulk_insert(appended) ELSE appended

\* faulty variant of flush: issues the bulk write unconditionally
flush_always(st) == _bulk_insert(st)

\* flush: bulk insert only when something is pending
flush(st) == IF st.pending # <<>> THEN _bulk_insert(st) ELSE st

(* -------------------------- DataTransformer ---------------------------- *)
\* sum(1 / (i + 1) for i in range(n)) in millionths (each term truncated)
RECURSIVE HarmonicMicro(_)
HarmonicMicro(n) ==
    IF n = 0 THEN 0 ELSE HarmonicMicro(n - 1) + (1000000 \div n)

\* the harmonic factor in thousandths: 5187 for 5.187...
HarmonicMilli == HarmonicMicro(HarmonicTerms) \div 1000

\* the body of _calculate_complex_metric: value ** 2 * sum(...), for an
\* integral value; the result is in thousandths
Metric(value) == value * value * HarmonicMilli

IndexOfKey(cache, key) ==
    CHOOSE i \in 1..Len(cache) : cache[i].key = key

Without(cache, i) == SubSeq(cache, 1, i - 1) \o SubSeq(cache, i + 1, Len(cache))

\* faulty variant of lru_call: a hit does not refresh the entry (first-in first-out)
lru_call_fifo(cache, key) ==
    IF \E i \in 1..Len(cache) : cache[i].key = key
    THEN [cache |-> cache, result |-> cache[IndexOfKey(cache, key)].result,
          computed |-> FALSE]
    ELSE LET result == Metric(key[2])
             added == Append(cache, [key |-> key, result |-> result])
         IN  [cache |-> IF Len(added) > maxsize THEN Tail(added) ELSE added,
              result |-> result, computed |-> TRUE]

\* @lru_cache(maxsize) around _calculate_complex_metric(self, value): the
\* key is (self, value); cache lists the entries least recently used first.
\* A hit returns the stored result and makes the entry the most recent; a
\* miss runs the body, stores the result and evicts the oldest when full.
lru_call(cache, key) ==
    IF \E i \in 1..Len(cache) : cache[i].key = key
    THEN LET i == IndexOfKey(cache, key)
         IN  [cache |-> Append(Without(cache, i), cache[i]),
              result |-> cache[i].result, computed |-> FALSE]
    ELSE LET result == Metric(key[2])
             added == Append(cache, [key |-> key, result |-> result])
         IN  [cache |-> IF Len(added) > maxsize THEN Tail(added) ELSE added,
              result |-> result, computed |-> TRUE]

(* --------------------------- DataValidator ----------------------------- *)
\* cache_key = f"{record.id}_{record.value}"
cache_key(record) == ToString(record.id) \o "_" \o ToString(record.value)

\* faulty variant of Predicate: the range check on the value is missing
PredicateNoRange(record) ==
    /\ record.timestamp.year >= MinYear
    /\ "source" \in DOMAIN record.metadata

\* the business rule evaluated on a cache miss
Predicate(record) ==
    /\ 0 <= record.value /\ record.value <= MaxValue * Milli
    /\ record.timestamp.year >= MinYear
    /\ "source" \in DOMAIN record.metadata

\* faulty variant of is_valid: evaluates the rule on every call and overwrites
is_valid_fresh(cache, record) ==
    LET k == cache_key(record)
        v == Predicate(record)
    IN  [cache |-> [x \in (DOMAIN cache) \cup {k} |->
                       IF x = k THEN v ELSE cache[x]],
         ret |-> v, evaluated |-> TRUE]

\* is_valid: a cached decision is returned as is; otherwise the rule is
\* evaluated and its result cached
is_valid(cache, record) ==
    LET k == cache_key(record)
    IN  IF k \in DOMAIN cache
        THEN [cache |-> cache, ret |-> cache[k], evaluated |-> FALSE]
        ELSE LET v == Predicate(record)
             IN  [cache |-> [x \in (DOMAIN cache) \cup {k} |->
                                IF x = k THEN v ELSE cache[x]],
                  ret |-> v, evaluated |-> TRUE]

(* ------------------------------ records -------------------------------- *)
\* a parsed datetime (only the fields the code reads or prints)
DT(year) ==
    [year |-> year, month |-> 6, day |-> 1, hour |-> 12, minute |-> 0,
     second |-> 0, microsecond |-> 0]

\* DataRecord values handed to the store and the validator by direct callers
DataRecords ==
    [id : 0..MaxId, timestamp : {DT(2019), DT(2021)},
     value : {10 * Milli, 20000 * Milli},
     metadata : {[source |-> "api_1"], [batch |-> "1"]}]

\* records used by direct callers of the store (the store reads only the id)
StoreRecords ==
    [id : 0..MaxId, timestamp : {DT(2021)}, value : {10 * Milli, 20 * Milli},
     metadata : {[source |-> "api_1"]}]

(* ------------------------ timestamps as text --------------------------- *)
Digits == <<"0", "1", "2", "3", "4", "5", "6", "7", "8", "9">>

IsDigit(c) == \E i \in 1..10 : Digits[i] = c

DigitVal(c) == (CHOOSE i \in 1..10 : Digits[i] = c) - 1

\* decimal text of n, zero-padded to width w
RECURSIVE Pad(_, _)
Pad(n, w) == IF w = 0 THEN <<>> ELSE Append(Pad(n \div 10, w - 1), Digits[(n % 10) + 1])

\* the number written by a run of digits
RECURSIVE Num(_)
Num(cs) ==
    IF cs = <<>> THEN 0
    ELSE 10 * Num(SubSeq(cs, 1, Len(cs) - 1)) + DigitVal(cs[Len(cs)])

AllDigits(cs) == \A i \in 1..Len(cs) : IsDigit(cs[i])

\* str(datetime): "YYYY-MM-DD HH:MM:SS", followed by ".ffffff" when the
\* microsecond is not zero
str_datetime(dt) ==
    Pad(dt.year, 4) \o <<"-">> \o Pad(dt.month, 2) \o <<"-">> \o Pad(dt.day, 2)
        \o <<" ">> \o Pad(dt.hour, 2) \o <<":">> \o Pad(dt.minute, 2)
        \o <<":">> \o Pad(dt.second, 2)
        \o (IF dt.microsecond = 0 THEN <<>>
            ELSE <<".">> \o Pad(dt.microsecond, 6))

IsLeap(y) == (y % 4 = 0 /\ y % 100 # 0) \/ y % 400 = 0

DaysIn(y, m) ==
    IF m = 2 THEN (IF IsLeap(y) THEN 29 ELSE 28)
    ELSE IF m \in {4, 6, 9, 11} THEN 30 ELSE 31

\* datetime.fromisoformat on the formats datetime.isoformat()/str() emit:
\* YYYY-MM-DD, optionally one separator character and HH:MM:SS, optionally
\* .ffffff.  ok = FALSE stands for the ValueError it raises.
fromisoformat(s) ==
    LET n == Len(s)
        field(a, b) == SubSeq(s, a, b)
        dateOk ==
            /\ n >= 10
            /\ AllDigits(field(1, 4)) /\ s[5] = "-"
            /\ AllDigits(field(6, 7)) /\ s[8] = "-"
            /\ AllDigits(field(9, 10))
            /\ Num(field(1, 4)) >= 1
            /\ Num(field(6, 7)) \in 1..12
            /\ Num(field(9, 10)) \in 1..DaysIn(Num(field(1, 4)), Num(field(6, 7)))
        timeOk ==
            /\ n >= 19
            /\ AllDigits(field(12, 13)) /\ s[14] = ":"
            /\ AllDigits(field(15, 16)) /\ s[17] = ":"
            /\ AllDigits(field(18, 19))
            /\ Num(field(12, 13)) < 24
            /\ Num(field(15, 16)) < 60
            /\ Num(field(18, 19)) < 60
        fracOk == n = 26 /\ s[20] = "." /\ AllDigits(field(21, 26))
        ok == /\ n \in {10, 19, 26}
              /\ dateOk
              /\ n >= 19 => timeOk
              /\ n = 26 => fracOk
    IN  IF ok
        THEN [ok |-> TRUE,
              dt |-> [year |-> Num(field(1, 4)), month |-> Num(field(6, 7)),
                      day |-> Num(field(9, 10)),
                      hour |-> IF n >= 19 THEN Num(field(12, 13)) ELSE 0,
                      minute |-> IF n >= 19 THEN Num(field(15, 16)) ELSE 0,
                      second |-> IF n >= 19 THEN Num(field(18, 19)) ELSE 0,
                      microsecond |-> IF n = 26 THEN Num(field(21, 26)) ELSE 0]]
        ELSE [ok |-> FALSE]

(* ----------------------- DataSourceConnector --------------------------- *)
\* values of random.random() * 100 (integral representatives of [0, 100)):
\* 3 enriches to about 46.7, 44 to more than 10000
RandomValues == {3, 44}

\* readings of datetime.now()
Now(year) == [DT(year) EXCEPT !.microsecond = 250000]

ClockYears == {2019, 2021}

\* fetch_data(batch_size) of the connector named name: the batches it can
\* return; record i - 1 has id i - 1, the clock's timestamp as text, a
\* random value and the connector's metadata
fetch_data(name, batch) ==
    {raw \in [1..batch ->
                [id : 0..(batch - 1),
                 timestamp : {str_datetime(Now(y)) : y \in ClockYears},
                 value : RandomValues,
                 metadata : {[source |-> name, batch |-> ToString(batch)]}]] :
        \A i \in 1..batch : raw[i].id = i - 1}

\* a timestamp string that is not ISO-8601
Malformed == <<"n", "o", "t", "-", "a", "-", "d", "a", "t", "e">>

\* a source connector standing in for an external feed (section 4.1 of the
\* specification: fetch returns exactly batch_size raw records): as
\* fetch_data, but the timestamp strings come from the feed and may be
\* malformed
FeedTimestamps == {str_datetime(Now(y)) : y \in ClockYears} \cup {Malformed}

feed_fetch(name, batch) ==
    {raw \in [1..batch ->
                [id : 0..(batch - 1),
                 timestamp : FeedTimestamps,
                 value : RandomValues,
                 metadata : {[source |-> name, batch |-> ToString(batch)]}]] :
        \A i \in 1..batch : raw[i].id = i - 1}

\* source.fetch_data(batch_size) for a configured source
Fetch(source, batch) ==
    IF source.kind = "DataSourceConnector"
    THEN fetch_data(source.name, batch)
    ELSE feed_fetch(source.name, batch)

\* DataPipeline.__init__: the two configured connectors
DefaultSources ==
    <<[kind |-> "DataSourceConnector", name |-> "api_1"],
      [kind |-> "DataSourceConnector", name |-> "api_2"]>>

\* the same pipeline with its connectors replaced by feed connectors
FeedSources ==
    <<[kind |-> "feed", name |-> "api_1"], [kind |-> "feed", name |-> "api_2"]>>

(* -------------------- DataTransformer.transform_record ----------------- *)
\* transform_record(record) on the transformer self: the enrichment runs
\* (through the cache) before the timestamp is parsed; raised = TRUE stands
\* for the ValueError of fromisoformat leaving transform_record
transform_record(cache, self, raw) ==
    LET c == lru_call(cache, <<self, raw.value>>)
        parsed == fromisoformat(raw.timestamp)
    IN  IF parsed.ok
        THEN [cache |-> c.cache, raised |-> FALSE,
              record |-> [id |-> raw.id, timestamp |-> parsed.dt,
                          value |-> c.result, metadata |-> raw.metadata]]
        ELSE [cache |-> c.cache, raised |-> TRUE]

(* ------------------------------- state --------------------------------- *)
VARIABLES
    db,                 \* DatabaseManager.db: id -> DataRecord
    _pending_records,   \* DatabaseManager._pending_records
    _batch_size,        \* DatabaseManager._batch_size (the threshold)
    bulk_writes,        \* number of _bulk_insert calls so far
    inserted,           \* records passed to insert_record by direct callers
    flushed,            \* TRUE once flush() has been called explicitly
    last_op,            \* the store operation that returned last
    last_pre,           \* buffer length when that operation was called
    metric_cache,       \* the lru_cache of _calculate_complex_metric
    metric_log,         \* direct enrichment calls: key, result, computed
    validation_cache,   \* DataValidator.validation_cache: key -> decision
    last_valid,         \* <<>> or the last direct is_valid call
    sources,            \* DataPipeline.sources
    pc,                 \* position inside process_batch
    batch_size,         \* argument of the current process_batch call
    src_idx,            \* index of the source being drained
    raw_data,           \* the batch fetched from that source
    rec_idx,            \* index of the raw record being handled
    record,             \* <<>> or the DataRecord produced by the transform
    runs,               \* number of process_batch calls started
    log,                \* the calls made by the current process_batch
    batches             \* the batches fetched by the current process_batch

storeVars ==
    <<db, _pending_records, _batch_size, bulk_writes, inserted, flushed,
      last_op, last_pre>>

transVars == <<metric_cache, metric_log>>

validVars == <<validation_cache, last_valid>>

pipeVars ==
    <<sources, pc, batch_size, src_idx, raw_data, rec_idx, record, runs, log,
      batches>>

vars == <<storeVars, transVars, validVars, pipeVars>>

Store == [db |-> db, pending |-> _pending_records, writes |-> bulk_writes]

SetStore(st) ==
    /\ db' = st.db
    /\ _pending_records' = st.pending
    /\ bulk_writes' = st.writes

\* DatabaseManager.__init__; the threshold is then configured
InitStore ==
    /\ db = <<>>
    /\ _pending_records = <<>>
    /\ _batch_size \in 1..MaxThreshold
    /\ bulk_writes = 0
    /\ inserted = <<>>
    /\ flushed = FALSE
    /\ last_op = "init"
    /\ last_pre = 0

\* the enrichment cache is created with the class, empty
InitTransformer ==
    /\ metric_cache = <<>>
    /\ metric_log = <<>>

\* DataValidator.__init__
InitValidator ==
    /\ validation_cache = <<>>
    /\ last_valid = <<>>

\* DataPipeline.__init__; no process_batch call has been made
InitPipeline ==
    /\ sources \in {DefaultSources, FeedSources}
    /\ pc = "idle"
    /\ batch_size = 0
    /\ src_idx = 0
    /\ raw_data = <<>>
    /\ rec_idx = 0
    /\ record = <<>>
    /\ runs = 0
    /\ log = <<>>
    /\ batches = <<>>

Init == InitStore /\ InitTransformer /\ InitValidator /\ InitPipeline

\* a direct call db.insert_record(r)
InsertRecord(r) ==
    /\ Len(inserted) < MaxInserts
    /\ SetStore(insert_record(Store, r, _batch_size))
    /\ inserted' = Append(inserted, r)
    /\ last_op' = "insert"
    /\ last_pre' = Len(_pending_records)
    /\ UNCHANGED <<_batch_size, flushed, transVars, validVars, pipeVars>>

\* a direct call db.flush()
Flush ==
    /\ SetStore(flush(Store))
    /\ flushed' = TRUE
    /\ last_op' = "flush"
    /\ last_pre' = Len(_pending_records)
    /\ UNCHANGED <<_batch_size, inserted, transVars, validVars, pipeVars>>

NextStore ==
    \/ \E r \in StoreRecords : InsertRecord(r)
    \/ Flush

SpecStore == Init /\ [][NextStore]_vars

(* ------------------------- claims on the store ------------------------- *)
N == Len(inserted)

IdsOf(s) == {s[i].id : i \in 1..Len(s)}

DistinctIds(s) == \A i, j \in 1..Len(s) : s[i].id = s[j].id => i = j

\* records handed to _bulk_insert by the threshold alone after N inserts
Written == (N \div _batch_size) * _batch_size

\* C1 as stated: floor(N/T)*T records before any flush, N after a flush
C1_Original ==
    /\ ~flushed => Cardinality(DOMAIN db) = Written
    /\ last_op = "flush" => Cardinality(DOMAIN db) = N

\* C1 (amended): before any explicit flush the Datastore holds exactly the
\* ids of the first floor(N/T)*T inserted records, and after a flush the ids
\* of all N; these are floor(N/T)*T and N entries when the ids are distinct
C1_BufferThreshold ==
    /\ ~flushed =>
          /\ DOMAIN db = IdsOf(SubSeq(inserted, 1, Written))
          /\ Len(_pending_records) = N - Written
          /\ DistinctIds(inserted) => Cardinality(DOMAIN db) = Written
    /\ last_op = "flush" =>
          /\ DOMAIN db = IdsOf(inserted)
          /\ DistinctIds(inserted) => Cardinality(DOMAIN db) = N

C1_Witness ==
    /\ last_op = "flush"
    /\ N > _batch_size
    /\ N % _batch_size # 0
    /\ DistinctIds(inserted)
    /\ Cardinality(DOMAIN db) = N

\* C4: after a flush every id holds the record of the most recent
\* insert_record call that carried that id
C4_LastWriteWins ==
    last_op = "flush" =>
        /\ DOMAIN db = IdsOf(inserted)
        /\ \A i \in 1..N :
              (\A j \in (i + 1)..N : inserted[j].id # inserted[i].id)
                  => db[inserted[i].id] = inserted[i]

C4_Witness ==
    /\ last_op = "flush"
    /\ bulk_writes >= 2
    /\ \E i, j \in 1..N :
          /\ i < j
          /\ inserted[i].id = 1 /\ inserted[i].value = 10 * Milli
          /\ inserted[j].id = 1 /\ inserted[j].value = 20 * Milli
          /\ i <= _batch_size /\ j > _batch_size
          /\ \A k \in (j + 1)..N : inserted[k].id # 1
    /\ db[1].value = 20 * Milli

\* C7: when insert_record returns, the buffer is shorter than the threshold
C7_BufferBound ==
    last_op = "insert" => Len(_pending_records) < _batch_size

C7_Witness ==
    /\ last_op = "insert"
    /\ _batch_size > 1
    /\ last_pre = _batch_size - 1
    /\ _pending_records = <<>>
    /\ Cardinality(DOMAIN db) > 0

\* C8: flush() on an empty buffer changes neither the Datastore nor the
\* buffer and issues no bulk write
C8_EmptyFlushNoOp ==
    [][(last_op' = "flush" /\ _pending_records = <<>>)
          => /\ db' = db
             /\ _pending_records' = <<>>
             /\ bulk_writes' = bulk_writes]_vars

C8_Witness ==
    /\ last_op = "flush"
    /\ last_pre = 0
    /\ _pending_records = <<>>
    /\ bulk_writes = 1
    /\ db # <<>>

(* ------------------- direct calls of the enrichment -------------------- *)
Transformers == {"t1", "t2"}

\* arguments of direct enrichment calls
MetricValues == {3, 43, 44}

\* a direct call t._calculate_complex_metric(v)
CalculateComplexMetric(t, v) ==
    /\ Len(metric_log) < MaxMetricCalls
    /\ LET c == lru_call(metric_cache, <<t, v>>)
       IN  /\ metric_cache' = c.cache
           /\ metric_log' = Append(metric_log,
                 [key |-> <<t, v>>, result |-> c.result,
                  computed |-> c.computed])
    /\ UNCHANGED <<storeVars, validVars, pipeVars>>

NextTransformer ==
    \E t \in Transformers, v \in MetricValues : CalculateComplexMetric(t, v)

SpecTransformer == Init /\ [][NextTransformer]_vars

\* the distinct other keys used strictly between calls i and j
OthersBetween(i, j) ==
    {metric_log[k].key : k \in (i + 1)..(j - 1)} \ {metric_log[i].key}

\* C5 as stated: a repeated call returns the same result and never recomputes
C5_Original ==
    \A i, j \in 1..Len(metric_log) :
        (i < j /\ metric_log[i].key = metric_log[j].key)
            => /\ metric_log[j].result = metric_log[i].result
               /\ ~metric_log[j].computed

\* C5 (amended): a repeated call returns the same result, and it performs no
\* recomputation when fewer than maxsize distinct other (transformer, value)
\* arguments were used between the two calls
C5_Memoization ==
    \A i, j \in 1..Len(metric_log) :
        (i < j /\ metric_log[i].key = metric_log[j].key)
            => /\ metric_log[j].result = metric_log[i].result
               /\ Cardinality(OthersBetween(i, j)) < maxsize
                     => ~metric_log[j].computed

C5_Witness ==
    \E i, j \in 1..Len(metric_log) :
        /\ i < j
        /\ metric_log[i].key = metric_log[j].key
        /\ Cardinality(OthersBetween(i, j)) = maxsize - 1
        /\ j - i > maxsize
        /\ metric_log[i].computed
        /\ ~metric_log[j].computed
        /\ metric_log[j].result = 9 * HarmonicMilli

(* ---------------------- direct calls of is_valid ----------------------- *)
\* a direct call validator.is_valid(r)
IsValid(r) ==
    /\ LET c == is_valid(validation_cache, r)
       IN  /\ validation_cache' = c.cache
           /\ last_valid' = <<[record |-> r, ret |-> c.ret,
                               evaluated |-> c.evaluated]>>
    /\ UNCHANGED <<storeVars, transVars, pipeVars>>

NextValidator == \E r \in DataRecords : IsValid(r)

SpecValidator == Init /\ [][NextValidator]_vars

\* C6: a cached decision is returned unchanged and without evaluating the
\* rule, whatever the later record's timestamp and metadata are, and no
\* cache entry is ever changed or removed
C6_Staleness ==
    [][/\ \A k \in DOMAIN validation_cache :
             /\ k \in DOMAIN validation_cache'
             /\ validation_cache'[k] = validation_cache[k]
       /\ \A c \in Range(last_valid') :
             cache_key(c.record) \in DOMAIN validation_cache
                 => /\ c.ret = validation_cache[cache_key(c.record)]
                    /\ ~c.evaluated]_vars

C6_Witness ==
    \E c \in Range(last_valid) :
        /\ ~c.evaluated
        /\ c.ret # Predicate(c.record)
        /\ c.ret = validation_cache[cache_key(c.record)]

(* --------------------- DataPipeline.process_batch ---------------------- *)
\* the pipeline's transformer
Transformer == "t1"

Event(op, s, i) == [op |-> op, src |-> s, rec |-> i]

\* faulty variant of AfterRecord: flushes after every source
AfterRecordFlushEach(s, i, nrec, nsrc) ==
    IF i < nrec THEN [pc |-> "transform", src |-> s, rec |-> i + 1]
    ELSE [pc |-> "flush", src |-> s, rec |-> 0]

\* loop control of process_batch once record i of source s is handled: the
\* next record of the batch, else the next source, else the final flush
AfterRecord(s, i, nrec, nsrc) ==
    IF i < nrec THEN [pc |-> "transform", src |-> s, rec |-> i + 1]
    ELSE IF s < nsrc THEN [pc |-> "fetch", src |-> s + 1, rec |-> 0]
    ELSE [pc |-> "flush", src |-> s, rec |-> 0]

GoTo(next) ==
    /\ pc' = next.pc
    /\ src_idx' = next.src
    /\ rec_idx' = next.rec

\* a call pipeline.process_batch(b) begins (the previous call is over)
ProcessBatch(b) ==
    /\ pc \in {"idle", "done", "raised"}
    /\ runs < MaxRuns
    /\ runs' = runs + 1
    /\ batch_size' = b
    /\ GoTo([pc |-> "fetch", src |-> 1, rec |-> 0])
    /\ raw_data' = <<>>
    /\ record' = <<>>
    /\ log' = <<>>
    /\ batches' = <<>>
    /\ UNCHANGED <<storeVars, transVars, validVars, sources>>

\* raw_data = source.fetch_data(batch_size)
FetchData ==
    /\ pc = "fetch"
    /\ \E raw \in Fetch(sources[src_idx], batch_size) :
          /\ raw_data' = raw
          /\ batches' = Append(batches, raw)
    /\ log' = Append(log, Event("fetch", src_idx, 0))
    /\ GoTo([pc |-> "transform", src |-> src_idx, rec |-> 1])
    /\ record' = <<>>
    /\ UNCHANGED <<storeVars, transVars, validVars, sources, batch_size, runs>>

\* record = self.transformer.transform_record(raw_record); a ValueError is
\* not caught by process_batch and ends the call
TransformRecord ==
    /\ pc = "transform"
    /\ LET t == transform_record(metric_cache, Transformer, raw_data[rec_idx])
       IN  /\ metric_cache' = t.cache
           /\ IF t.raised
              THEN /\ pc' = "raised"
                   /\ record' = <<>>
              ELSE /\ pc' = "validate"
                   /\ record' = <<t.record>>
    /\ log' = Append(log, Event("transform", src_idx, rec_idx))
    /\ UNCHANGED <<storeVars, metric_log, validVars, sources, batch_size,
                   src_idx, raw_data, rec_idx, runs, batches>>

\* if self.validator.is_valid(record): ...
Validate ==
    /\ pc = "validate"
    /\ LET c == is_valid(validation_cache, record[1])
       IN  /\ validation_cache' = c.cache
           /\ IF c.ret
              THEN /\ pc' = "insert"
                   /\ UNCHANGED <<src_idx, rec_idx, record>>
              ELSE /\ GoTo(AfterRecord(src_idx, rec_idx, Len(raw_data),
                                       Len(sources)))
                   /\ record' = <<>>
    /\ log' = Append(log, Event("validate", src_idx, rec_idx))
    /\ UNCHANGED <<storeVars, transVars, last_valid, sources, batch_size,
                   raw_data, runs, batches>>

\* self.db.insert_record(record)
Insert ==
    /\ pc = "insert"
    /\ SetStore(insert_record(Store, record[1], _batch_size))
    /\ GoTo(AfterRecord(src_idx, rec_idx, Len(raw_data), Len(sources)))
    /\ record' = <<>>
    /\ log' = Append(log, Event("insert", src_idx, rec_idx))
    /\ UNCHANGED <<_batch_size, inserted, flushed, last_op, last_pre,
                   transVars, validVars, sources, batch_size, raw_data, runs,
                   batches>>

\* self.db.flush() at the end of process_batch, which then returns
FinalFlush ==
    /\ pc = "flush"
    /\ SetStore(flush(Store))
    /\ pc' = "done"
    /\ log' = Append(log, Event("flush", 0, 0))
    /\ UNCHANGED <<_batch_size, inserted, flushed, last_op, last_pre,
                   transVars, validVars, sources, batch_size, src_idx,
                   raw_data, rec_idx, record, runs, batches>>

NextPipeline ==
    \/ \E b \in BatchSizes : ProcessBatch(b)
    \/ FetchData
    \/ TransformRecord
    \/ Validate
    \/ Insert
    \/ FinalFlush

SpecPipeline == Init /\ [][NextPipeline]_vars

(* ------------------------ claims on the pipeline ----------------------- *)
Over == pc \in {"done", "raised"}

Logged(op, s, i) == \E p \in 1..Len(log) : log[p] = Event(op, s, i)

Pos(op, s, i) == CHOOSE p \in 1..Len(log) : log[p] = Event(op, s, i)

Parseable(raw) == fromisoformat(raw.timestamp).ok

\* the DataRecord a raw record with a well-formed timestamp stands for
Transformed(raw) ==
    [id |-> raw.id, timestamp |-> fromisoformat(raw.timestamp).dt,
     value |-> raw.value * raw.value * HarmonicMilli, metadata |-> raw.metadata]

Stored == Range(_pending_records) \cup {db[k] : k \in DOMAIN db}

\* C2: a record with a malformed timestamp is never validated or stored
\* (so it never appears in the Datastore), and when the
\* call is over every source has been fetched, every record with a
\* well-formed timestamp has been transformed and validated, and nothing
\* accepted is left unpersisted
C2_DropMalformed ==
    /\ \A s \in 1..Len(batches), i \in 1..batch_size :
          ~Parseable(batches[s][i])
              => ~Logged("validate", s, i) /\ ~Logged("insert", s, i)
    /\ Over =>
          /\ Len(batches) = Len(sources)
          /\ \A s \in 1..Len(batches), i \in 1..batch_size :
                Parseable(batches[s][i])
                    => Logged("transform", s, i) /\ Logged("validate", s, i)
          /\ _pending_records = <<>>

\* C3: after the first process_batch call, when every fetched record is
\* valid, the Datastore has one entry per fetched record less the ids the
\* two sources share, and a shared id holds the second source's record
C3_EndToEnd ==
    (pc = "done" /\ runs = 1
        /\ \A s \in 1..2, i \in 1..batch_size :
              Parseable(batches[s][i]) /\ Predicate(Transformed(batches[s][i]))
        /\ DistinctIds(batches[1]) /\ DistinctIds(batches[2]))
    => LET collisions == IdsOf(batches[1]) \cap IdsOf(batches[2])
       IN  /\ Cardinality(DOMAIN db)
                 = 2 * batch_size - Cardinality(collisions)
           /\ _pending_records = <<>>
           /\ \A i \in 1..batch_size :
                 batches[2][i].id \in collisions
                     => db[batches[2][i].id] = Transformed(batches[2][i])

C3_Witness ==
    /\ pc = "done" /\ runs = 1
    /\ _batch_size = 2 * batch_size
    /\ sources = DefaultSources
    /\ \A s \in 1..2, i \in 1..batch_size :
          Parseable(batches[s][i]) /\ Predicate(Transformed(batches[s][i]))
    /\ Cardinality(DOMAIN db) = batch_size
    /\ bulk_writes = 1
    /\ \A k \in DOMAIN db : db[k].metadata.source = "api_2"

\* position of an event in the order process_batch is meant to follow:
\* by source, then by record, then fetch < transform < validate < insert;
\* the flush comes after everything
Rank(e) ==
    IF e.op = "flush" THEN (Len(sources) + 1) * (batch_size + 1) * 4
    ELSE (e.src * (batch_size + 1) + e.rec) * 4
            + (CASE e.op = "fetch" -> 0 [] e.op = "transform" -> 1
                 [] e.op = "validate" -> 2 [] e.op = "insert" -> 3)

Flushes == {p \in 1..Len(log) : log[p].op = "flush"}

OneFlushAtEnd ==
    pc = "done" => Flushes = {Len(log)}
                     /\ Logged("validate", Len(sources), batch_size)

====
